---- MODULE Spec2Model ----
(***************************************************************************)
(* A model of src/data/financial_data_gen.py: the value corruptor          *)
(* (maybe_corrupt), the entity generator and transaction synthesizer       *)
(* (generate_initial_data), the ledger mutator (generate_subsequent_files) *)
(* and the driver that splits and writes the files (main).                 *)
(*                                                                         *)
(* Representation.                                                         *)
(*   - A Python value is a record [t, n, s]: None, a str (a sequence of    *)
(*     one-character strings) or a number.                                 *)
(*   - A float holding money is a fixed-point integer counting thousandths *)
(*     of a dollar; every float operation is rounded to the nearest        *)
(*     thousandth, and round(x, 2) rounds that to a multiple of 10.        *)
(*   - random.random() returns k / RandDen for a numerator k in            *)
(*     0 .. RandDen-1; every comparison with a threshold is made on that   *)
(*     rational.                                                           *)
(***************************************************************************)
EXTENDS Integers, Sequences, FiniteSets, TLC

VARIABLES
    error_rate,           \* ERROR_RATE of the run, in thousandths (0: corruption disabled)
    pc,                   \* position of the run in main / the generators
    accounts,             \* customer id -> list of account numbers
    account_balances,     \* the ledger: account number -> running balance
    transactions,         \* current_transactions: the record list being built
    all_transaction_ids,  \* every id issued so far, in order
    update_indices,       \* indices (0-based) still to be mutated in this phase
    file_index,           \* index into OUTPUT_FILES of the file being produced
    loop_i,               \* the running loop's counter
    next_id_num,          \* next_id_num of generate_subsequent_files
    files,                \* the files written so far, each a list of records
    pre,                  \* per record: what was handed to the corruptor last
    initial_balance,      \* per account: the balance it was initialized with
    ncorrupt,             \* fields the corruptor has altered so far
    last,                 \* the step just taken and its outcome
    call                  \* one call of maybe_corrupt: its input, draws and result

vars == << error_rate, pc, accounts, account_balances, transactions,
           all_transaction_ids, update_indices, file_index, loop_i,
           next_id_num, files, pre, initial_balance, ncorrupt, last, call >>

(***************************************************************************)
(* Bounds of the model.                                                    *)
(***************************************************************************)
\* random.random() is explored on the grid k / RandDen.
RandDen == 7
\* Customers generated by the entity generator (200 in the source).
NumCustomers == 2
\* At most this many fields are altered by the corruptor in one run.
MaxCorrupt == 2
\* Incremental phases explored when corruption is enabled.
MaxCorruptPhases == 1
\* The magnitude distortion (x 1000) is explored on numbers up to this size.
MaxMagnitudeInput == 200000

(***************************************************************************)
(* Configuration (lines 12-15), scaled down: 1000 records, 250 per file,   *)
(* 30 percent updated in the source.                                       *)
(***************************************************************************)
BASE_NUM_RECORDS == 2
ADDITIONAL_RECORDS_PER_FILE == 1
UPDATE_PERCENTAGE == 50
\* ERROR_RATE = 0.05, in thousandths.
ERROR_RATE == 50
\* len(OUTPUT_FILES)
NumOutputFiles == 4

(***************************************************************************)
(* The value lists (lines 31-65).                                          *)
(***************************************************************************)
TRANSACTION_TYPES ==
    << <<"d","e","p","o","s","i","t">>,
       <<"w","i","t","h","d","r","a","w","a","l">>,
       <<"t","r","a","n","s","f","e","r">>,
       <<"p","a","y","m","e","n","t">>,
       <<"r","e","f","u","n","d">>,
       <<"f","e","e">>,
       <<"i","n","t","e","r","e","s","t">> >>

CATEGORIES ==
    << <<"g","r","o","c","e","r","i","e","s">>,
       <<"d","i","n","i","n","g">>,
       <<"e","n","t","e","r","t","a","i","n","m","e","n","t">>,
       <<"u","t","i","l","i","t","i","e","s">>,
       <<"h","o","u","s","i","n","g">>,
       <<"t","r","a","n","s","p","o","r","t","a","t","i","o","n">>,
       <<"h","e","a","l","t","h","c","a","r","e">>,
       <<"e","d","u","c","a","t","i","o","n">>,
       <<"s","h","o","p","p","i","n","g">>,
       <<"t","r","a","v","e","l">>,
       <<"c","h","a","r","i","t","y">>,
       <<"i","n","c","o","m","e">>,
       <<"i","n","v","e","s","t","m","e","n","t">>,
       <<"s","a","v","i","n","g","s">>,
       <<"i","n","s","u","r","a","n","c","e">>,
       <<"t","a","x","e","s">>,
       <<"m","i","s","c","e","l","l","a","n","e","o","u","s">> >>

CURRENCIES ==
    << <<"U","S","D">>,
       <<"U","S","D">>,
       <<"U","S","D">>,
       <<"U","S","D">>,
       <<"U","S","D">>,
       <<"E","U","R">>,
       <<"G","B","P">>,
       <<"C","A","D">>,
       <<"J","P","Y">>,
       <<"A","U","D">> >>

STATUSES ==
    << <<"c","o","m","p","l","e","t","e","d">>,
       <<"p","e","n","d","i","n","g">>,
       <<"f","a","i","l","e","d">>,
       <<"d","i","s","p","u","t","e","d">>,
       <<"r","e","v","e","r","s","e","d">> >>

MERCHANTS ==
    << <<"A","m","a","z","o","n">>,
       <<"W","a","l","m","a","r","t">>,
       <<"T","a","r","g","e","t">>,
       <<"C","o","s","t","c","o">>,
       <<"W","h","o","l","e"," ","F","o","o","d","s">>,
       <<"U","b","e","r">>,
       <<"U","b","e","r"," ","E","a","t","s">>,
       <<"D","o","o","r","D","a","s","h">>,
       <<"S","p","o","t","i","f","y">>,
       <<"N","e","t","f","l","i","x">>,
       <<"A","T","&","T">>,
       <<"V","e","r","i","z","o","n">>,
       <<"C","o","m","c","a","s","t">>,
       <<"P","G","&","E">>,
       <<"C","h","e","v","r","o","n">>,
       <<"S","h","e","l","l">>,
       <<"C","V","S">>,
       <<"W","a","l","g","r","e","e","n","s">>,
       <<"S","t","a","r","b","u","c","k","s">>,
       <<"M","c","D","o","n","a","l","d","s">>,
       <<"H","o","m","e"," ","D","e","p","o","t">>,
       <<"L","o","w","e","s">>,
       <<"A","p","p","l","e">>,
       <<"B","e","s","t"," ","B","u","y">>,
       <<"D","i","r","e","c","t"," ","D","e","p","o","s","i","t"," ","-"," ","E","m","p","l","o","y","e","r">>,
       <<"V","e","n","m","o">>,
       <<"P","a","y","P","a","l">>,
       <<"Z","e","l","l","e">>,
       <<"C","h","a","s","e">>,
       <<"B","a","n","k"," ","o","f"," ","A","m","e","r","i","c","a">>,
       <<"W","e","l","l","s"," ","F","a","r","g","o">>,
       <<"A","m","e","r","i","c","a","n"," ","E","x","p","r","e","s","s">>,
       <<"V","i","s","a">>,
       <<"M","a","s","t","e","r","c","a","r","d">>,
       <<"S","o","u","t","h","w","e","s","t"," ","A","i","r","l","i","n","e","s">>,
       <<"D","e","l","t","a"," ","A","i","r","l","i","n","e","s">>,
       <<"A","i","r","b","n","b">>,
       <<"H","i","l","t","o","n"," ","H","o","t","e","l","s">>,
       <<"M","a","r","r","i","o","t","t"," ","H","o","t","e","l","s">> >>

LOCATIONS ==
    << <<"N","e","w"," ","Y","o","r","k",","," ","N","Y">>,
       <<"L","o","s"," ","A","n","g","e","l","e","s",","," ","C","A">>,
       <<"C","h","i","c","a","g","o",","," ","I","L">>,
       <<"H","o","u","s","t","o","n",","," ","T","X">>,
       <<"P","h","o","e","n","i","x",","," ","A","Z">>,
       <<"P","h","i","l","a","d","e","l","p","h","i","a",","," ","P","A">>,
       <<"S","a","n"," ","A","n","t","o","n","i","o",","," ","T","X">>,
       <<"S","a","n"," ","D","i","e","g","o",","," ","C","A">>,
       <<"D","a","l","l","a","s",","," ","T","X">>,
       <<"S","a","n"," ","J","o","s","e",","," ","C","A">>,
       <<"A","u","s","t","i","n",","," ","T","X">>,
       <<"J","a","c","k","s","o","n","v","i","l","l","e",","," ","F","L">>,
       <<"F","o","r","t"," ","W","o","r","t","h",","," ","T","X">>,
       <<"C","o","l","u","m","b","u","s",","," ","O","H">>,
       <<"C","h","a","r","l","o","t","t","e",","," ","N","C">>,
       <<"S","a","n"," ","F","r","a","n","c","i","s","c","o",","," ","C","A">>,
       <<"I","n","d","i","a","n","a","p","o","l","i","s",","," ","I","N">>,
       <<"S","e","a","t","t","l","e",","," ","W","A">>,
       <<"D","e","n","v","e","r",","," ","C","O">>,
       <<"B","o","s","t","o","n",","," ","M","A">>,
       <<"O","n","l","i","n","e">>,
       <<"M","o","b","i","l","e"," ","A","p","p">>,
       <<"A","T","M">>,
       <<"P","h","o","n","e"," ","B","a","n","k","i","n","g">>,
       <<"B","r","a","n","c","h">> >>

(***************************************************************************)
(* Python values.                                                          *)
(***************************************************************************)
None == [t |-> "none", n |-> 0, s |-> <<>>]
Str(s) == [t |-> "str", n |-> 0, s |-> s]
Num(n) == [t |-> "num", n |-> n, s |-> <<>>]
IsNone(v) == v.t = "none"
IsStr(v) == v.t = "str"
IsNum(v) == v.t = "num"

(***************************************************************************)
(* Arithmetic.                                                             *)
(***************************************************************************)
Abs(x) == IF x < 0 THEN -x ELSE x

\* The integer nearest to num / den (den > 0), ties to the even one.
RoundDiv(num, den) ==
    LET q == num \div den
        r == num % den
    IN  IF 2 * r < den THEN q
        ELSE IF 2 * r > den THEN q + 1
        ELSE IF q % 2 = 0 THEN q ELSE q + 1

\* x * num / den to the nearest thousandth.
MulDiv(x, num, den) == (x \div den) * num + RoundDiv((x % den) * num, den)

\* round(x, 2)
round2(x) == 10 * RoundDiv(x, 10)

\* r / RandDen < num / den
Lt(r, num, den) == r * den < num * RandDen

\* random.random(): the numerators of the grid.
Random == 0 .. (RandDen - 1)

(***************************************************************************)
(* Strings.                                                                *)
(***************************************************************************)
DigitChars == << "0", "1", "2", "3", "4", "5", "6", "7", "8", "9" >>
ascii_lowercase ==
    << "a","b","c","d","e","f","g","h","i","j","k","l","m",
       "n","o","p","q","r","s","t","u","v","w","x","y","z" >>

IsDigitChar(c) == \E d \in 1 .. 10 : DigitChars[d] = c
DigitVal(c) == (CHOOSE d \in 1 .. 10 : DigitChars[d] = c) - 1

\* str(k) for an integer k >= 0
RECURSIVE Digits(_)
Digits(k) ==
    IF k < 10 THEN << DigitChars[k + 1] >>
    ELSE Digits(k \div 10) \o << DigitChars[(k % 10) + 1] >>

RECURSIVE DigitsVal(_)
DigitsVal(s) ==
    IF s = <<>> THEN 0
    ELSE 10 * DigitsVal(SubSeq(s, 1, Len(s) - 1)) + DigitVal(s[Len(s)])

RECURSIVE Pow10(_)
Pow10(k) == IF k = 0 THEN 1 ELSE 10 * Pow10(k - 1)

\* s.zfill(width)
zfill(s, width) ==
    IF Len(s) >= width THEN s
    ELSE [k \in 1 .. (width - Len(s)) |-> "0"] \o s

\* s.isdigit()
isdigit(s) == Len(s) > 0 /\ \A k \in 1 .. Len(s) : IsDigitChar(s[k])

\* s.replace(c, '')
replace_all(s, c) == SelectSeq(s, LAMBDA x : x # c)

\* s.replace(c, '', 1)
replace_first(s, c) ==
    IF \E k \in 1 .. Len(s) : s[k] = c
    THEN LET k == CHOOSE k \in 1 .. Len(s) :
                      s[k] = c /\ \A j \in 1 .. (k - 1) : s[j] # c
         IN  SubSeq(s, 1, k - 1) \o SubSeq(s, k + 1, Len(s))
    ELSE s

\* sub in s
contains(s, sub) ==
    \E k \in 0 .. (Len(s) - Len(sub)) : SubSeq(s, k + 1, k + Len(sub)) = sub

RECURSIVE StripZeros(_)
StripZeros(s) ==
    IF Len(s) > 1 /\ s[Len(s)] = "0" THEN StripZeros(SubSeq(s, 1, Len(s) - 1))
    ELSE s

\* str(x) of a float x: sign, integer part, point, shortest fraction.
str_float(n) ==
    (IF n < 0 THEN << "-" >> ELSE <<>>)
        \o Digits(Abs(n) \div 1000) \o << "." >>
        \o StripZeros(zfill(Digits(Abs(n) % 1000), 3))

\* float(s) succeeds: an optional sign, digits with at most one point.
float_ok(s) ==
    LET body == IF s # <<>> /\ s[1] = "-" THEN Tail(s) ELSE s
    IN  /\ Cardinality({k \in 1 .. Len(body) : body[k] = "."}) <= 1
        /\ isdigit(replace_all(body, "."))

\* float(s), for float_ok(s)
float_val(s) ==
    LET neg == s # <<>> /\ s[1] = "-"
        body == IF neg THEN Tail(s) ELSE s
        dot == IF \E k \in 1 .. Len(body) : body[k] = "."
               THEN CHOOSE k \in 1 .. Len(body) : body[k] = "."
               ELSE Len(body) + 1
        ip == SubSeq(body, 1, dot - 1)
        fp == SubSeq(body, dot + 1, Len(body))
        mag == DigitsVal(ip) * 1000 + RoundDiv(DigitsVal(fp) * 1000, Pow10(Len(fp)))
    IN  IF neg THEN -mag ELSE mag

(***************************************************************************)
(* maybe_corrupt (lines 82-107).  The draws are its calls of random:       *)
(* r_hit (line 83), r_type (line 84), r_coin (lines 88, 105), pos          *)
(* (line 92) and letter (line 93).                                         *)
(***************************************************************************)
maybe_corrupt(value, rate, r_hit, r_type, r_coin, pos, letter) ==
    IF ~ (r_hit * 1000 < rate * RandDen) THEN value
    ELSE IF Lt(r_type, 3, 10)
         THEN (IF Lt(r_coin, 1, 2) THEN None ELSE Str(<<>>))
    ELSE IF Lt(r_type, 6, 10) /\ IsStr(value) /\ value.s # <<>>
         THEN Str(SubSeq(value.s, 1, pos) \o << letter >>
                  \o SubSeq(value.s, pos + 2, Len(value.s)))
    ELSE IF Lt(r_type, 8, 10)
         THEN (IF IsNum(value) THEN Str(str_float(value.n))
               ELSE IF IsStr(value) /\ isdigit(replace_first(value.s, "."))
                    THEN Str(value.s \o << "x" >>)
               ELSE value)
    ELSE (IF IsNum(value)
          THEN (IF Lt(r_coin, 1, 2) THEN Num(value.n * 1000) ELSE Num(- value.n))
          ELSE value)

(***************************************************************************)
(* The corruptor on its own: one call of maybe_corrupt on a drawn input.   *)
(***************************************************************************)
NoCall == [ stage |-> "none", value |-> None, rate |-> 0, r_hit |-> 0,
            r_type |-> 0, r_coin |-> 0, pos |-> 0, letter |-> "a",
            result |-> None ]

NoStep == [ op |-> "none", idx |-> 0, kind |-> "none", outcome |-> "none",
            chosen |-> None, written |-> None ]

\* The values the call is tried on: None, empty and non-empty text, numeric
\* text, and numbers.
CorruptorInputs ==
    { None, Str(<<>>), Str(<<"f","e","e">>), Str(<<"1","2",".","5">>),
      Str(<<"7">>), Num(12500), Num(-1000), Num(867140) }

\* The letters the call is tried with.
CorruptorLetters == { "a", "e", "x" }

Idle ==
    /\ error_rate = ERROR_RATE
    /\ accounts = <<>>
    /\ account_balances = <<>>
    /\ transactions = <<>>
    /\ all_transaction_ids = <<>>
    /\ update_indices = <<>>
    /\ file_index = 0
    /\ loop_i = 0
    /\ next_id_num = 0
    /\ files = <<>>
    /\ pre = <<>>
    /\ initial_balance = <<>>
    /\ ncorrupt = 0
    /\ last = NoStep

InitCorruptor ==
    /\ Idle
    /\ pc = "corruptor"
    /\ \E v \in CorruptorInputs, rate \in { ERROR_RATE, (ERROR_RATE * 3) \div 2 } :
          call = [ NoCall EXCEPT !.stage = "input", !.value = v, !.rate = rate ]

CallMaybeCorrupt ==
    /\ pc = "corruptor"
    /\ call.stage = "input"
    /\ \E r_hit \in Random, r_type \in Random, r_coin \in Random,
          letter \in CorruptorLetters :
         \E pos \in 0 .. (IF Len(call.value.s) > 0 THEN Len(call.value.s) - 1 ELSE 0) :
            call' = [ stage |-> "returned", value |-> call.value, rate |-> call.rate,
                      r_hit |-> r_hit, r_type |-> r_type, r_coin |-> r_coin,
                      pos |-> pos, letter |-> letter,
                      result |-> maybe_corrupt(call.value, call.rate, r_hit, r_type,
                                               r_coin, pos, letter) ]
    /\ UNCHANGED << error_rate, pc, accounts, account_balances, transactions,
                    all_transaction_ids, update_indices, file_index, loop_i,
                    next_id_num, files, pre, initial_balance, ncorrupt, last >>

NextCorruptor == CallMaybeCorrupt

SpecCorruptor == InitCorruptor /\ [][NextCorruptor]_vars

\* The variant the draw selects (thresholds 0.3, 0.6, 0.8 of lines 86-102).
SelectedVariant(c) ==
    IF Lt(c.r_type, 3, 10) THEN "nullify"
    ELSE IF Lt(c.r_type, 6, 10) THEN "string_mutation"
    ELSE IF Lt(c.r_type, 8, 10) THEN "type_confusion"
    ELSE "magnitude"

CallEnteredCorruption(c) == c.stage = "returned" /\ c.r_hit * 1000 < c.rate * RandDen

\* The selected variant does not apply to the value's type.
VariantNotApplicable(c) ==
    \/ SelectedVariant(c) = "string_mutation" /\ ~ (IsStr(c.value) /\ c.value.s # <<>>)
    \/ /\ SelectedVariant(c) = "type_confusion"
       /\ IsStr(c.value) /\ ~ isdigit(replace_first(c.value.s, "."))
    \/ SelectedVariant(c) = "magnitude" /\ ~ IsNum(c.value)

\* C9: when maybe_corrupt enters the corruption branch and the selected
\* variant does not apply to the value's type, the returned value equals the
\* input value.
C9_PassThroughWhenNotApplicable ==
    (CallEnteredCorruption(call) /\ VariantNotApplicable(call))
        => call.result = call.value

(***************************************************************************)
(* The entity generator (generate_initial_data, lines 110-121).            *)
(***************************************************************************)
\* customer_ids (line 111)
customer_id_of(k) == << "C", "U", "S", "T" >> \o zfill(Digits(k + 1001), 6)
customer_ids == [ k \in 1 .. NumCustomers |-> customer_id_of(k - 1) ]

\* generate_account_number (lines 114-115) for the drawn integer
generate_account_number(drawn) == << "A", "C", "C", "T", "-" >> \o Digits(drawn)

\* The values of random.randint(10000000, 99999999) that are explored.
AccountDraws == { 10000000, 10000001, 55555555, 99999999 }

\* num_accounts (line 120)
num_accounts(r1, r2) == IF Lt(r1, 1, 2) THEN 1 ELSE IF Lt(r2, 8, 10) THEN 2 ELSE 3

InitEntities ==
    /\ Idle
    /\ pc = "entities"
    /\ call = NoCall

\* One iteration of the loop of lines 119-121.
GenerateAccounts ==
    /\ pc = "entities"
    /\ loop_i < NumCustomers
    /\ \E r1 \in Random, r2 \in Random :
         \E drawn \in [ 1 .. num_accounts(r1, r2) -> AccountDraws ] :
            accounts' = accounts @@
                (customer_ids[loop_i + 1] :>
                    [ k \in 1 .. num_accounts(r1, r2) |->
                        generate_account_number(drawn[k]) ])
    /\ loop_i' = loop_i + 1
    /\ UNCHANGED << error_rate, pc, account_balances, transactions,
                    all_transaction_ids, update_indices, file_index,
                    next_id_num, files, pre, initial_balance, ncorrupt, last, call >>

NextEntities == GenerateAccounts

SpecEntities == InitEntities /\ [][NextEntities]_vars

\* C7: account identifiers are pairwise distinct: no identifier appears in
\* the lists of two customers or twice in one customer's list.
C7_AccountIdsDistinct ==
    \A c1 \in DOMAIN accounts, c2 \in DOMAIN accounts :
        \A k1 \in 1 .. Len(accounts[c1]), k2 \in 1 .. Len(accounts[c2]) :
            (<< c1, k1 >> # << c2, k2 >>) => accounts[c1][k1] # accounts[c2][k2]

(***************************************************************************)
(* Dates (random_date, lines 71-76; format_date, lines 78-79).  A date is  *)
(* a number of days since 2023-01-01 and a number of seconds in the day.   *)
(***************************************************************************)
MonthLengths(year) ==
    << 31, IF year % 4 = 0 THEN 29 ELSE 28, 31, 30, 31, 30, 31, 31, 30, 31, 30, 31 >>

RECURSIVE MonthAndDay(_, _, _)
MonthAndDay(day_of_year, month, lengths) ==
    IF day_of_year < lengths[month] THEN << month, day_of_year + 1 >>
    ELSE MonthAndDay(day_of_year - lengths[month], month + 1, lengths)

\* date.strftime("%Y-%m-%d %H:%M:%S"), for the years 2023 and 2024
format_date(day, sec) ==
    LET year == IF day < 365 THEN 2023 ELSE 2024
        md == MonthAndDay(IF day < 365 THEN day ELSE day - 365, 1, MonthLengths(year))
    IN  Digits(year) \o << "-" >> \o zfill(Digits(md[1]), 2) \o << "-" >>
            \o zfill(Digits(md[2]), 2) \o << " " >>
            \o zfill(Digits(sec \div 3600), 2) \o << ":" >>
            \o zfill(Digits((sec % 3600) \div 60), 2) \o << ":" >>
            \o zfill(Digits(sec % 60), 2)

\* The window of the initial records: 2023-01-01 to 2023-12-31 (lines 134-135).
InitialWindow == [ start |-> 0, days |-> 364 ]
\* The window of the records of a later file (lines 235-237): from
\* 2024-01-01 to 2024-01-15 plus 15 days per file.
PhaseWindow(fi) == [ start |-> 365, days |-> 14 + 15 * fi ]

(***************************************************************************)
(* The draws that are explored.                                            *)
(***************************************************************************)
\* random_choice(arr) (lines 68-69), over the explored positions of arr.
random_choice(arr, explored) == { arr[k] : k \in explored \cap (1 .. Len(arr)) }

ExploredCustomers == { 1 }
ExploredAccounts == { 1, 2 }
\* deposit and fee
ExploredTypes == { 1, 6 }
\* completed for a new record; completed and pending for a status change
ExploredStatuses == { 1 }
ExploredNewStatuses == { 1, 2 }
ExploredOthers == { 1 }
\* random.randrange(n)
ExploredRange(n) == { 0 }
\* the numerators drawn for an amount, a balance and a scaling factor
ExploredAmounts == { 0 }
ExploredBalances == { 3 }
ExploredFactors == { 0 }
\* maybe_corrupt: the draw deciding the hit, the coin, the position, the letter
ExploredHits == { 0, RandDen - 1 }
ExploredCoins == { 0, RandDen - 1 }
ExploredPositions(s) == IF Len(s) = 0 THEN { 0 } ELSE { 0, Len(s) - 1 }
ExploredLetters == { "q" }
\* The fields whose corruption is explored: those the mutator reads back.
FaultFields == { "transaction_id", "account_number", "amount", "status" }

(***************************************************************************)
(* Every result of maybe_corrupt(value, rate) over the explored draws.     *)
(***************************************************************************)
Outcomes(field, value, rate) ==
    IF rate = 0 \/ field \notin FaultFields THEN { value }
    ELSE { maybe_corrupt(value, rate, d[1], d[2], d[3], d[4], d[5]) :
             d \in { e \in ExploredHits \X Random \X ExploredCoins
                              \X ExploredPositions(value.s) \X ExploredLetters :
                       IsNum(value) /\ Abs(value.n) > MaxMagnitudeInput
                           => Lt(e[2], 8, 10) } }

\* ERROR_RATE * 1.5 (lines 213-215)
OptionalRate(rate) == (rate * 3) \div 2

(***************************************************************************)
(* The transaction synthesizer: the loop bodies of lines 158-218 and       *)
(* 317-377, which are the same code.                                       *)
(***************************************************************************)
Header ==
    << "transaction_id", "timestamp", "customer_id", "account_number",
       "transaction_type", "amount", "currency", "balance_after", "status",
       "merchant", "category", "location" >>

transaction_id_of(num) == << "T", "X", "N" >> \o zfill(Digits(num), 8)

Deposit == TRANSACTION_TYPES[1]
Withdrawal == TRANSACTION_TYPES[2]
Transfer == TRANSACTION_TYPES[3]
Payment == TRANSACTION_TYPES[4]
Refund == TRANSACTION_TYPES[5]
Fee == TRANSACTION_TYPES[6]
Interest == TRANSACTION_TYPES[7]

\* amount_of with the fee branch lost: a fee is credited like a deposit.
amount_of_fee_as_credit(type, r, r2) ==
    IF type \in { Deposit, Refund, Interest, Fee }
    THEN round2(RoundDiv(2000 * 1000 * r, RandDen) + 10000)
    ELSE round2(- RoundDiv(1000 * 1000 * r, RandDen) - 10000)

\* The amount by type (lines 168-175); r, r2 are the draws of random.random().
amount_of(type, r, r2) ==
    IF type \in { Deposit, Refund, Interest }
    THEN round2(RoundDiv(2000 * 1000 * r, RandDen) + 10000)
    ELSE IF type \in { Withdrawal, Payment, Transfer }
    THEN round2(- RoundDiv(1000 * 1000 * r, RandDen) - 10000)
    ELSE IF type = Fee
    THEN round2(- RoundDiv(50 * 1000 * r, RandDen) - 1000)
    ELSE round2(RoundDiv(1000 * 1000 * r, RandDen) * (IF Lt(r2, 1, 2) THEN 1 ELSE -1))

\* 1000 + random.random() * 9000 (lines 130, 339)
initial_balance_of(r) == 1000000 + RoundDiv(9000 * 1000 * r, RandDen)

Banks == << MERCHANTS[29], MERCHANTS[30], MERCHANTS[31] >>

\* merchant and category (lines 187-198)
merchant_of(type, r_dep, merchant, category, bank) ==
    IF type \in { Payment, Refund }
    THEN [ merchant |-> Str(merchant), category |-> Str(category) ]
    ELSE IF type = Deposit /\ Lt(r_dep, 7, 10)
    THEN [ merchant |-> Str(MERCHANTS[25]), category |-> Str(CATEGORIES[12]) ]
    ELSE IF type = Fee
    THEN [ merchant |-> Str(bank), category |-> Str(<< "f", "e", "e", "s" >>) ]
    ELSE [ merchant |-> None, category |-> None ]

\* The draws of one loop body.
SynthDraws(window) ==
    [ customer : random_choice(customer_ids, ExploredCustomers),
      account : ExploredAccounts,
      type : random_choice(TRANSACTION_TYPES, ExploredTypes),
      r_amount : ExploredAmounts,
      r_sign : { 0 },
      currency : random_choice(CURRENCIES, ExploredOthers),
      r_balance : ExploredBalances,
      status : random_choice(STATUSES, ExploredStatuses),
      r_dep : { 0 },
      merchant : random_choice(MERCHANTS, ExploredOthers),
      category : random_choice(CATEGORIES, ExploredOthers),
      bank : random_choice(Banks, ExploredOthers),
      location : random_choice(LOCATIONS, ExploredOthers),
      day : ExploredRange(window.days),
      sec : ExploredRange(86400) ]

\* The record before corruption, and the new balance of its account.
Synthesize(txn_id, window, d, accts, balances) ==
    LET account_number == accts[d.customer][d.account]
        amount == amount_of(d.type, d.r_amount, d.r_sign)
        known == account_number \in DOMAIN balances
        start_balance == IF known THEN balances[account_number]
                         ELSE initial_balance_of(d.r_balance)
        current_balance == start_balance + amount
        mc == merchant_of(d.type, d.r_dep, d.merchant, d.category, d.bank)
    IN  [ record |->
            [ transaction_id |-> Str(txn_id),
              timestamp |-> Str(format_date(window.start + d.day, d.sec)),
              customer_id |-> Str(d.customer),
              account_number |-> Str(account_number),
              transaction_type |-> Str(d.type),
              amount |-> Num(amount),
              currency |-> Str(d.currency),
              balance_after |-> Num(round2(current_balance)),
              status |-> Str(d.status),
              merchant |-> mc.merchant,
              category |-> mc.category,
              location |-> Str(d.location) ],
          account |-> account_number,
          amount |-> amount,
          type |-> d.type,
          known |-> known,
          start_balance |-> start_balance,
          current_balance |-> current_balance ]

\* The number of fields of record r that differ from those of record p.
Altered(r, p) == Cardinality({ k \in 1 .. Len(Header) : r[Header[k]] # p[Header[k]] })

\* The rate a field is corrupted at (lines 204-215).
FieldRate(field, rate) ==
    IF field \in { "merchant", "category", "location" } THEN OptionalRate(rate)
    ELSE rate

\* The records that differ from r in one more field that maybe_corrupt altered.
OneMoreAltered(r, p, rate) ==
    UNION { { [ r EXCEPT ![Header[k]] = w ] :
                w \in Outcomes(Header[k], p[Header[k]], FieldRate(Header[k], rate))
                         \ { p[Header[k]] } } :
            k \in { j \in 1 .. Len(Header) : r[Header[j]] = p[Header[j]] } }

\* The record as stored, every field through maybe_corrupt (lines 203-216),
\* for the outcomes in which at most budget fields are altered.
RECURSIVE CorruptedRecords(_, _, _)
CorruptedRecords(p, rate, budget) ==
    IF budget = 0 \/ rate = 0 THEN { p }
    ELSE LET fewer == CorruptedRecords(p, rate, budget - 1)
         IN  fewer \cup UNION { OneMoreAltered(r, p, rate) : r \in fewer }

\* f with x mapped to v, whether or not x is in its domain.
Put(f, x, v) == [ y \in DOMAIN f \cup { x } |-> IF y = x THEN v ELSE f[y] ]

\* The effect of one loop body on the run, for txn_id in the given window.
AppendTransaction(txn_id, window) ==
    \E d \in SynthDraws(window) :
        /\ d.account <= Len(accounts[d.customer])
        /\ LET sy == Synthesize(txn_id, window, d, accounts, account_balances)
           IN  /\ \E r \in CorruptedRecords(sy.record, error_rate,
                                              MaxCorrupt - ncorrupt) :
                    /\ ncorrupt' = ncorrupt + Altered(r, sy.record)
                    /\ transactions' = Append(transactions, r)
               /\ all_transaction_ids' = Append(all_transaction_ids, txn_id)
               /\ account_balances' = Put(account_balances, sy.account, sy.current_balance)
               /\ initial_balance' =
                    IF sy.known THEN initial_balance
                    ELSE Put(initial_balance, sy.account, sy.start_balance)
               /\ pre' = Append(pre, [ amount |-> sy.amount, type |-> sy.type,
                                       account |-> sy.account, adjusted |-> FALSE ])

(***************************************************************************)
(* The ledger mutator: one iteration of the loop of lines 240-312.         *)
(***************************************************************************)
\* str(v)
py_str(v) ==
    IF IsNum(v) THEN str_float(v.n)
    ELSE IF IsNone(v) THEN << "N", "o", "n", "e" >>
    ELSE v.s

\* resolves without the lookup: only a null id is skipped.
resolves_only_none_skipped(tid, ids) == ~ IsNone(tid)

\* Lines 249-260: whether the stored id leads to a known id.
resolves(tid, ids) ==
    IF IsNone(tid) \/ tid = Str(<<>>) THEN FALSE
    ELSE IF \E k \in 1 .. Len(ids) : Str(ids[k]) = tid THEN TRUE
    ELSE \E k \in 1 .. Len(ids) : contains(py_str(tid), ids[k])

\* new_status_choices without the while loop of line 265.
new_status_choices_no_loop(stored) == random_choice(STATUSES, ExploredNewStatuses)

\* Lines 264-266: the statuses the loop can leave in new_status.
new_status_choices(stored) ==
    { s \in random_choice(STATUSES, ExploredNewStatuses) : Str(s) # stored }

Result(t, balances, p, kind, outcome, chosen, written, altered) ==
    [ t |-> t, balances |-> balances, p |-> p, kind |-> kind, outcome |-> outcome,
      chosen |-> chosen, written |-> written, altered |-> altered ]

Differs(a, b) == IF a = b THEN 0 ELSE 1

\* Lines 262-267.
StatusResults(t, p, balances, rate) ==
    UNION { { Result([ t EXCEPT !.status = w ], balances, p, "status", "mutated",
                     Str(s), w, Differs(w, Str(s))) :
                w \in Outcomes("status", Str(s), rate) } :
            s \in new_status_choices(t.status) }

\* float(s.replace('x', '')) raises (lines 284, 299), or arithmetic on None does.
NotANumber(v) == IsNone(v) \/ (IsStr(v) /\ ~ float_ok(replace_all(v.s, "x")))
AsNumber(v) == IF IsStr(v) THEN float_val(replace_all(v.s, "x")) ELSE v.n

\* Lines 269-307.
AmountResults(t, p, balances, rate) ==
    LET account_number == t.account_number
        stored == t.amount
        nothing(outcome) ==
            { Result(t, balances, p, "amount", outcome, None, None, 0) }
    IN  IF IsNone(account_number) \/ account_number = Str(<<>>)
        THEN nothing("no_account")
        ELSE IF IsStr(stored)
                /\ ~ isdigit(replace_all(replace_all(stored.s, "-"), "."))
        THEN nothing("amount_not_convertible")
        ELSE IF IsStr(stored) /\ NotANumber(stored)
        THEN nothing("conversion_failed")
        ELSE IF py_str(account_number) \notin DOMAIN balances
        THEN nothing("account_unknown")
        ELSE IF IsNone(stored)
        THEN nothing("conversion_failed")
        ELSE
          LET a == account_number.s
              original_amount == AsNumber(stored)
              reduced == [ balances EXCEPT ![a] = @ - original_amount ]
          IN  UNION { LET new_amount ==
                              MulDiv(original_amount, 8 * RandDen + 4 * r, 10 * RandDen)
                          handed == Num(round2(new_amount))
                          np == [ p EXCEPT !.amount = handed.n, !.adjusted = TRUE ]
                      IN  UNION {
                            IF NotANumber(w)
                            THEN { Result([ t EXCEPT !.amount = w ], reduced, np,
                                          "amount", "write_failed", handed, w,
                                          Differs(w, handed)) }
                            ELSE LET applied ==
                                       [ reduced EXCEPT ![a] = @ + AsNumber(w) ]
                                     balance == Num(round2(applied[a]))
                                 IN  { Result([ t EXCEPT !.amount = w,
                                                         !.balance_after = b ],
                                              applied, np, "amount", "adjusted",
                                              handed, w,
                                              Differs(w, handed) + Differs(b, balance)) :
                                         b \in Outcomes("balance_after", balance, rate) }
                            : w \in Outcomes("amount", handed, rate) }
                    : r \in ExploredFactors }

\* Lines 309-312.
TimestampResults(t, p, balances, window, rate) ==
    UNION { { Result([ t EXCEPT !.timestamp = w ], balances, p, "timestamp", "mutated",
                     Str(format_date(window.start + d[1], d[2])), w,
                     Differs(w, Str(format_date(window.start + d[1], d[2])))) :
                w \in Outcomes("timestamp",
                               Str(format_date(window.start + d[1], d[2])), rate) } :
            d \in ExploredRange(window.days) \X ExploredRange(86400) }

\* The loop body for one selected record; r_update is the draw of line 242.
MutationResults(t, p, balances, ids, r_update, window, rate) ==
    IF ~ resolves(t.transaction_id, ids)
    THEN { Result(t, balances, p, "none", "unresolvable", None, None, 0) }
    ELSE IF Lt(r_update, 4, 10) THEN StatusResults(t, p, balances, rate)
    ELSE IF Lt(r_update, 8, 10) THEN AmountResults(t, p, balances, rate)
    ELSE TimestampResults(t, p, balances, window, rate)

(***************************************************************************)
(* The run: main (lines 381-424) driving the two generators.               *)
(***************************************************************************)
\* Two outcomes of the entity generator: the first customer has one
\* account, or two.
OneAccount ==
    [ c \in { customer_ids[k] : k \in 1 .. NumCustomers } |->
        IF c = customer_ids[1] THEN << generate_account_number(10000000) >>
        ELSE << generate_account_number(55555555) >> ]

TwoAccounts ==
    [ OneAccount EXCEPT ![customer_ids[1]] =
        << generate_account_number(10000000), generate_account_number(99999999) >> ]

Step(op, idx) == [ NoStep EXCEPT !.op = op, !.idx = idx ]

InitRun(rate, accts) ==
    /\ error_rate = rate
    /\ pc = "initial"
    /\ accounts = accts
    /\ account_balances = <<>>
    /\ transactions = <<>>
    /\ all_transaction_ids = <<>>
    /\ update_indices = <<>>
    /\ file_index = 0
    /\ loop_i = 0
    /\ next_id_num = 0
    /\ files = <<>>
    /\ pre = <<>>
    /\ initial_balance = <<>>
    /\ ncorrupt = 0
    /\ last = NoStep
    /\ call = NoCall

\* One iteration of the loop of lines 158-218.
GenerateRecord ==
    /\ pc = "initial"
    /\ loop_i < BASE_NUM_RECORDS
    /\ AppendTransaction(transaction_id_of(loop_i + 1), InitialWindow)
    /\ loop_i' = loop_i + 1
    /\ last' = Step("generate", loop_i)
    /\ UNCHANGED << error_rate, pc, accounts, update_indices, file_index,
                    next_id_num, files, call >>

\* split_point (line 392)
split_point(n) == n \div 2

\* initial_transactions[:split_point] (line 393)
first_half(ts) == SubSeq(ts, 1, split_point(Len(ts)))

\* second_half with the slice starting one record late.
second_half_one_dropped(ts) == SubSeq(ts, split_point(Len(ts)) + 2, Len(ts))

\* initial_transactions[split_point:] (line 394)
second_half(ts) == SubSeq(ts, split_point(Len(ts)) + 1, Len(ts))

\* Lines 391-408: the initial records are split and written as two files.
WriteInitialFiles ==
    /\ pc = "initial"
    /\ loop_i = BASE_NUM_RECORDS
    /\ files' = << first_half(transactions), second_half(transactions) >>
    /\ file_index' = 2
    /\ pc' = "begin"
    /\ last' = Step("write", 0)
    /\ UNCHANGED << error_rate, accounts, account_balances, transactions,
                    all_transaction_ids, update_indices, loop_i, next_id_num,
                    pre, initial_balance, ncorrupt, call >>

\* num_updates (line 229)
num_updates(n) == (n * UPDATE_PERCENTAGE) \div 100

\* random.sample(range(n), k) (line 232): k distinct indices in some order
random_sample(n, k) ==
    { s \in [ 1 .. k -> 0 .. (n - 1) ] :
        \A x \in 1 .. k, y \in 1 .. k : x # y => s[x] # s[y] }

\* Lines 413-416 and 226-232: the next file is started from the current
\* records, and the records to update are selected.
BeginPhase ==
    /\ pc = "begin"
    /\ file_index < NumOutputFiles
    /\ error_rate = 0 \/ file_index - 1 <= MaxCorruptPhases
    /\ update_indices' \in random_sample(Len(transactions),
                                         num_updates(Len(transactions)))
    /\ pc' = "mutate"
    /\ last' = Step("begin", 0)
    /\ UNCHANGED << error_rate, accounts, account_balances, transactions,
                    all_transaction_ids, file_index, loop_i, next_id_num, files,
                    pre, initial_balance, ncorrupt, call >>

\* One iteration of the loop of lines 240-312.
MutateRecord ==
    /\ pc = "mutate"
    /\ update_indices # <<>>
    /\ LET idx == Head(update_indices)
       IN  \E r_update \in Random :
             \E res \in MutationResults(transactions[idx + 1], pre[idx + 1],
                                        account_balances, all_transaction_ids,
                                        r_update, PhaseWindow(file_index - 1),
                                        error_rate) :
                /\ ncorrupt + res.altered <= MaxCorrupt
                /\ ncorrupt' = ncorrupt + res.altered
                /\ transactions' = [ transactions EXCEPT ![idx + 1] = res.t ]
                /\ pre' = [ pre EXCEPT ![idx + 1] = res.p ]
                /\ account_balances' = res.balances
                /\ last' = [ op |-> "mutate", idx |-> idx, kind |-> res.kind,
                             outcome |-> res.outcome, chosen |-> res.chosen,
                             written |-> res.written ]
    /\ update_indices' = Tail(update_indices)
    /\ UNCHANGED << error_rate, pc, accounts, all_transaction_ids, file_index,
                    loop_i, next_id_num, files, initial_balance, call >>

\* first_new_id without the + 1: the last id issued is issued again.
first_new_id_reused(ids) == Len(ids)

\* next_id_num (line 315)
first_new_id(ids) == Len(ids) + 1

\* Line 315: the mutation loop is over; the appending loop starts.
BeginAppend ==
    /\ pc = "mutate"
    /\ update_indices = <<>>
    /\ next_id_num' = first_new_id(all_transaction_ids)
    /\ loop_i' = 0
    /\ pc' = "append"
    /\ last' = Step("begin_append", 0)
    /\ UNCHANGED << error_rate, accounts, account_balances, transactions,
                    all_transaction_ids, update_indices, file_index, files,
                    pre, initial_balance, ncorrupt, call >>

\* One iteration of the loop of lines 317-377.
AppendRecord ==
    /\ pc = "append"
    /\ loop_i < ADDITIONAL_RECORDS_PER_FILE
    /\ AppendTransaction(transaction_id_of(next_id_num + loop_i),
                         PhaseWindow(file_index - 1))
    /\ loop_i' = loop_i + 1
    /\ last' = Step("append", Len(transactions))
    /\ UNCHANGED << error_rate, pc, accounts, update_indices, file_index,
                    next_id_num, files, call >>

\* Lines 419-424: the file is written; line 413: the next one, if any.
WriteFile ==
    /\ pc = "append"
    /\ loop_i = ADDITIONAL_RECORDS_PER_FILE
    /\ files' = Append(files, transactions)
    /\ file_index' = file_index + 1
    /\ pc' = IF file_index + 1 < NumOutputFiles THEN "begin" ELSE "done"
    /\ last' = Step("write", file_index)
    /\ UNCHANGED << error_rate, accounts, account_balances, transactions,
                    all_transaction_ids, update_indices, loop_i, next_id_num,
                    pre, initial_balance, ncorrupt, call >>

Next ==
    \/ GenerateRecord
    \/ WriteInitialFiles
    \/ BeginPhase
    \/ MutateRecord
    \/ BeginAppend
    \/ AppendRecord
    \/ WriteFile

\* A run with corruption at ERROR_RATE.
Init == InitRun(ERROR_RATE, OneAccount)
Spec == Init /\ [][Next]_vars

\* A run with corruption disabled.
InitClean == InitRun(0, TwoAccounts)
SpecClean == InitClean /\ [][Next]_vars

(***************************************************************************)
(* Properties.                                                             *)
(***************************************************************************)
\* The records generated for account a, as positions of the record list.
RecordsOf(a) == { k \in 1 .. Len(pre) : pre[k].account = a }

LastRecordOf(a) == CHOOSE k \in RecordsOf(a) : \A j \in RecordsOf(a) : j <= k

\* The sum of amounts[k] over the first n records that belong to account a.
RECURSIVE SumFor(_, _, _)
SumFor(amounts, a, n) ==
    IF n = 0 THEN 0
    ELSE (IF pre[n].account = a THEN amounts[n] ELSE 0) + SumFor(amounts, a, n - 1)

StoredAmounts == [ k \in 1 .. Len(transactions) |-> transactions[k].amount.n ]
HandedAmounts == [ k \in 1 .. Len(pre) |-> pre[k].amount ]

\* The initial generation, or a mutate-and-append phase, has just completed.
PhaseCompleted ==
    \/ pc = "initial" /\ loop_i = BASE_NUM_RECORDS
    \/ pc = "append" /\ loop_i = ADDITIONAL_RECORDS_PER_FILE
    \/ pc \in { "begin", "done" }

\* C1: with corruption disabled, after the initial generation and after any
\* number of mutate-and-append phases, for every account the initial balance
\* plus the sum of the current amounts of its records equals (to the two
\* decimals it is recorded with) the balance-after of the last-generated
\* record of that account.
C1_LastBalanceAfterIsSum ==
    (error_rate = 0 /\ PhaseCompleted) =>
        \A a \in DOMAIN account_balances :
            transactions[LastRecordOf(a)].balance_after =
                Num(round2(initial_balance[a]
                           + SumFor(StoredAmounts, a, Len(transactions))))

\* C2: in every reachable state each account's ledger balance is its initial
\* balance plus the sum of the pre-corruption current amounts of the
\* transactions applied to it.
C2_LedgerIsSumOfUncorruptedAmounts ==
    \A a \in DOMAIN account_balances :
        account_balances[a] =
            initial_balance[a] + SumFor(HandedAmounts, a, Len(pre))

\* A step of the mutation loop, on the record at position Target.
MutationStep == pc = "mutate" /\ update_indices # <<>> /\ last'.op = "mutate"
Target == Head(update_indices) + 1

\* C3: when an amount adjustment hits a value that cannot be converted to a
\* number (the stored amount, or the amount just written), the record's
\* amount and balance-after and the ledger are what they were before.
C3_FailedAdjustmentChangesNothing ==
    [][ ( /\ MutationStep
          /\ last'.kind = "amount"
          /\ \/ NotANumber(transactions[Target].amount)
             \/ IsNum(last'.chosen) /\ NotANumber(last'.written) )
        => ( /\ transactions'[Target].amount = transactions[Target].amount
             /\ transactions'[Target].balance_after
                    = transactions[Target].balance_after
             /\ account_balances' = account_balances ) ]_vars

\* The number an id carries after its prefix.
IdNumber(id) == DigitsVal(SubSeq(id, 4, Len(id)))

\* C4: the ids issued in a run are pairwise distinct, and every id is
\* greater than every id issued before it, across all phases.
C4_IdsDistinctAndIncreasing ==
    \A j \in 1 .. Len(all_transaction_ids), k \in 1 .. Len(all_transaction_ids) :
        j < k => /\ all_transaction_ids[j] # all_transaction_ids[k]
                 /\ IdNumber(all_transaction_ids[j]) < IdNumber(all_transaction_ids[k])

C4_Witness ==
    /\ pc = "done"
    /\ Len(all_transaction_ids)
          = BASE_NUM_RECORDS + (NumOutputFiles - 2) * ADDITIONAL_RECORDS_PER_FILE

\* C5 as stated: the two initial files sum to the base count, and each
\* incremental file has the count of the file written just before it plus
\* the per-file addition.
C5_EachFileAddsToThePreviousFile ==
    Len(files) >= 2 =>
        /\ Len(files[1]) + Len(files[2]) = BASE_NUM_RECORDS
        /\ \A k \in 3 .. Len(files) :
              Len(files[k]) = Len(files[k - 1]) + ADDITIONAL_RECORDS_PER_FILE

\* C5 amended: the two initial files sum to the base count; the first
\* incremental file has the base count (both initial files together) plus
\* the addition; each later file has the previous file's count plus the
\* addition.
C5_FileCounts ==
    Len(files) >= 2 =>
        /\ Len(files[1]) + Len(files[2]) = BASE_NUM_RECORDS
        /\ Len(files) >= 3 =>
              Len(files[3]) = Len(files[1]) + Len(files[2])
                                  + ADDITIONAL_RECORDS_PER_FILE
        /\ \A k \in 4 .. Len(files) :
              Len(files[k]) = Len(files[k - 1]) + ADDITIONAL_RECORDS_PER_FILE

C5_Witness == Len(files) = NumOutputFiles /\ Len(files[2]) > 0

\* A fee amount between -51 and -1.
InFeeRange(amount) == -51000 <= amount /\ amount <= -1000

\* C6 as stated: in every file written, every fee record has a
\* pre-corruption amount between -51 and -1, also after mutations.
C6_FeeAmountInRangeInEveryFile ==
    last.op = "write" =>
        \A k \in 1 .. Len(pre) : pre[k].type = Fee => InFeeRange(pre[k].amount)

\* C6 amended: every fee record whose amount was never adjusted has a
\* pre-corruption amount between -51 and -1.
C6_UnadjustedFeeAmountInRange ==
    \A k \in 1 .. Len(pre) :
        (pre[k].type = Fee /\ ~ pre[k].adjusted) => InFeeRange(pre[k].amount)

C6_Witness ==
    /\ last.op = "write"
    /\ Len(files) = 3
    /\ \E k \in 1 .. Len(pre) : pre[k].type = Fee /\ ~ pre[k].adjusted
    /\ \E k \in 1 .. Len(pre) : pre[k].type = Fee /\ pre[k].adjusted

\* The stored id is null, empty, or neither a known id nor text containing one.
IdUnresolvable(tid) ==
    \/ IsNone(tid)
    \/ tid = Str(<<>>)
    \/ /\ \A k \in 1 .. Len(all_transaction_ids) :
             tid # Str(all_transaction_ids[k])
       /\ \A k \in 1 .. Len(all_transaction_ids) :
             ~ contains(py_str(tid), all_transaction_ids[k])

\* C8: a record selected for mutation whose id is unresolvable keeps all its
\* fields, and no ledger balance changes; no record is selected twice in a
\* phase, so it reaches the phase's output as it was.
C8_UnresolvableRecordUntouched ==
    [][ ( MutationStep /\ IdUnresolvable(transactions[Target].transaction_id) )
        => ( /\ transactions' = transactions
             /\ account_balances' = account_balances
             /\ \A k \in 1 .. Len(update_indices') :
                   update_indices'[k] # Head(update_indices) ) ]_vars

C8_Witness ==
    /\ last.op = "mutate"
    /\ last.outcome = "unresolvable"
    /\ IsStr(transactions[last.idx + 1].transaction_id)
    /\ transactions[last.idx + 1].transaction_id.s # <<>>

\* C10 as stated: a status change leaves the record with a status different
\* from the one it held.
C10_StatusDiffersAfterChange ==
    [][ ( MutationStep /\ last'.kind = "status" )
        => transactions'[Target].status # transactions[Target].status ]_vars

\* C10 amended: the status chosen by a status change is one of STATUSES and
\* differs from the status the record held; the stored status differs from
\* the one held whenever the corruptor returns the chosen status unaltered.
C10_ChosenStatusDiffers ==
    [][ ( MutationStep /\ last'.kind = "status" )
        => ( /\ \E k \in 1 .. Len(STATUSES) : last'.chosen = Str(STATUSES[k])
             /\ last'.chosen # transactions[Target].status
             /\ transactions'[Target].status = last'.written
             /\ last'.written = last'.chosen
                   => transactions'[Target].status # transactions[Target].status ) ]_vars

C10_Witness ==
    /\ last.op = "mutate"
    /\ last.kind = "status"
    /\ last.written = last.chosen
    /\ transactions[last.idx + 1].status = last.chosen

====
